---- MODULE Spec2Model ----
(***************************************************************************)
(* A model of the Bluetooth label printer bridge: the BluetoothPrinter     *)
(* connection life cycle, its send and print operations as sequences of    *)
(* writes on the serial transport, and the front ends that drive it.       *)
(*                                                                         *)
(* Every public method is one action.  The serial transport (pyserial) is  *)
(* the environment: each open and each write has an outcome drawn from a   *)
(* small set.  Text is kept as a sequence of ASCII chunks, so its length   *)
(* in bytes and its layout are computed, never assumed.                    *)
(***************************************************************************)
EXTENDS Integers, Sequences, FiniteSets, TLC

\* ---------------------------------------------------------------- bounds
\* Largest image width and height (pixels) handed to print_image_tspl.
MaxW == 9
MaxH == 2
\* Most calls of serial.Serial(...) in one behaviour.
MaxOpens == 2
\* Most feed lines asked of the legacy (ESC/POS) print_label.
MaxFeed == 1
\* Most pixels by which a drawn image differs from an all-white or an
\* all-black one.
MaxInk == 2
\* Most GUI print workers alive at a time.
MaxWorkers == 2

VARIABLES
    PDF_SUPPORT,   \* module flag: PIL and fitz could be imported
    connection,    \* self.connection: "None", or a Serial that is "Open" or "Closed"
    openCount,     \* calls of serial.Serial(...) made so far
    lastOp,        \* the method that has just returned, "idle" between calls
    wasConnected,  \* is_connected() when that method was entered
    result,        \* what it returned: "True", "False", "None", or "Raised"
    log,           \* the transport writes it attempted, in order
    job,           \* the arguments it was given
    fe,            \* the front-end request (GUI worker, CLI main, with-block) it was
    gui            \* the GUI window: crop selection, buttons, print workers, Tk queue

vars == <<PDF_SUPPORT, connection, openCount, lastOp, wasConnected, result, log, job, fe,
         gui>>

\* ------------------------------------------------------------ byte data
RECURSIVE SumLen(_)
SumLen(chunks) ==
    IF chunks = <<>> THEN 0 ELSE Len(Head(chunks)) + SumLen(Tail(chunks))

\* A byte string: ASCII text chunks followed by raw binary bytes.
TextData(chunks) == [text |-> chunks, bin |-> <<>>]
BinData(bytes) == [text |-> <<>>, bin |-> bytes]
ByteLen(data) == SumLen(data.text) + Len(data.bin)

\* ----------------------------------------------------- connection state
is_connected(conn) == conn = "Open"

OpenOutcome == {"opened", "returned_closed", "SerialException", "Exception"}

\* connect(): what self.connection becomes, what is returned, and how many
\* times serial.Serial(...) was called.
connect_reopen(conn, out) ==
    CASE out = "opened" -> [conn |-> "Open", ret |-> "True", opens |-> 1]
      [] out = "returned_closed" -> [conn |-> "Closed", ret |-> "False", opens |-> 1]
      [] OTHER -> [conn |-> conn, ret |-> "False", opens |-> 1]

connect(conn, out) ==
    IF conn = "Open"
    THEN [conn |-> conn, ret |-> "True", opens |-> 0]
    ELSE CASE out = "opened" -> [conn |-> "Open", ret |-> "True", opens |-> 1]
           [] out = "returned_closed" -> [conn |-> "Closed", ret |-> "False", opens |-> 1]
           [] OTHER -> [conn |-> conn, ret |-> "False", opens |-> 1]

\* disconnect(): closes an open handle and forgets it; otherwise nothing.
disconnect_keeps_handle(conn) ==
    [conn |-> conn, closed |-> conn = "Open"]

disconnect(conn) ==
    IF conn = "Open"
    THEN [conn |-> "None", closed |-> TRUE]
    ELSE [conn |-> conn, closed |-> FALSE]

\* ------------------------------------------------------ transport writes
\* Outcome of connection.write(data) followed by connection.flush():
\*   ok         all bytes accepted, flush returned
\*   short      write returned fewer bytes than given, flush returned
\*   write_exc  write raised
\*   flush_exc  write accepted all bytes, flush raised
Outcome == {"ok", "short", "write_exc", "flush_exc"}

\* One outcome for each write a method can attempt, in order.
FaultPlans(k) == [1..k -> Outcome]

BytesWritten(data, out) ==
    CASE out = "ok" -> ByteLen(data)
      [] out = "short" -> IF ByteLen(data) = 0 THEN 0 ELSE ByteLen(data) - 1
      [] out = "write_exc" -> 0
      [] out = "flush_exc" -> ByteLen(data)

WriteRec(data, out) ==
    [data |-> data, n |-> BytesWritten(data, out),
     flushed |-> out \in {"ok", "short"}, raised |-> out \in {"write_exc", "flush_exc"}]

\* A method's outcome: its return value and the writes it attempted.
Ret(ret, writes) == [ret |-> ret, writes |-> writes]

send_raw(conn, data, out) ==
    IF ~is_connected(conn) THEN Ret("False", <<>>)
    ELSE IF out \in {"write_exc", "flush_exc"}
    THEN Ret("False", <<WriteRec(data, out)>>)
    ELSE Ret("True", <<WriteRec(data, out)>>)

\* text.encode(encoding), for an encoding name Python knows: "ok", or
\* UnicodeEncodeError (caught by send_text).
EncodeOutcome == {"ok", "UnicodeEncodeError"}

\* text.encode(encoding), for an encoding name the caller chose (send_text,
\* print_simple, the CLI's --encoding): a name Python does not know raises
\* LookupError.
CodecOutcome == EncodeOutcome \cup {"LookupError"}

\* send_text() catches UnicodeEncodeError only: a LookupError leaves it, before
\* send_raw looks at the connection.
send_text(conn, chunks, enc, out) ==
    IF enc = "UnicodeEncodeError" THEN Ret("False", <<>>)
    ELSE IF enc = "LookupError" THEN Ret("Raised", <<>>)
    ELSE send_raw(conn, TextData(chunks), out)

\* send_file(): the file must exist and be readable; its bytes go out in one write.
FileOutcome == {"ok", "missing", "IOError"}

send_file(conn, file, bytes, out) ==
    IF file # "ok" THEN Ret("False", <<>>)
    ELSE send_raw(conn, BinData(bytes), out)

send_esc_pos_command(conn, bytes, out) == send_raw(conn, BinData(bytes), out)

\* initialize_printer(): ESC @ then ESC t 16; neither result is looked at.
initialize_printer(conn, plan) ==
    IF ~is_connected(conn) THEN Ret("False", <<>>)
    ELSE Ret("True",
             send_raw(conn, BinData(<<27, 64>>), plan[1]).writes
             \o send_raw(conn, BinData(<<27, 116, 16>>), plan[2]).writes)

\* ------------------------------------------------------------ user text
\* A text is a sequence of lines (text.split('\n')); a line is a sequence of
\* one-character chunks.
\* not line.strip(): the line is empty or holds white space only.
IsBlank(line) == \A i \in 1..Len(line) : line[i] \in {" ", "\t", "\r"}

Texts ==
    { << <<"H", "i">> >>,
      << <<"A">>, <<>>, <<"B">> >>,
      << <<"\"", "x", "\"">> >>,
      << <<" ">>, <<"Z">> >>,
      << <<"a">>, <<"\t">>, <<"b">>, <<>>, <<"c">> >>,
      << <<"\\", "\"">> >>,
      << <<"A", "\r">>, <<"B">> >> }

RECURSIVE JoinLines(_)
JoinLines(lines) ==
    IF lines = <<>> THEN <<>>
    ELSE IF Len(lines) = 1 THEN Head(lines)
    ELSE Head(lines) \o <<"\n">> \o JoinLines(Tail(lines))

\* The line as it is, its double quotes left alone.
EscapeQuotes_none(line) == line

\* line.replace('"', '\\"')
RECURSIVE EscapeQuotes(_)
EscapeQuotes(line) ==
    IF line = <<>> THEN <<>>
    ELSE (IF Head(line) = "\"" THEN <<"\\", "\"">> ELSE <<Head(line)>>)
         \o EscapeQuotes(Tail(line))

\* ------------------------------------------------------ label commands
LabelSpecs ==
    { [w |-> 100, h |-> 150, gap |-> 2], [w |-> 40, h |-> 30, gap |-> 2],
      [w |-> 0, h |-> 30, gap |-> 0] }

HeaderChunks(lbl) ==
    << "SIZE ", ToString(lbl.w), " mm, ", ToString(lbl.h), " mm\n",
       "GAP ", ToString(lbl.gap), " mm, 0 mm\n",
       "DIRECTION 1\n",
       "CLS\n" >>

LineSpacing == 40

\* The loop with current_y advanced on every line, printed or skipped.
RECURSIVE TextLines_every_line(_, _, _, _)
TextLines_every_line(lines, font, x, current_y) ==
    IF lines = <<>> THEN <<>>
    ELSE IF IsBlank(Head(lines))
    THEN TextLines_every_line(Tail(lines), font, x, current_y + LineSpacing)
    ELSE << "TEXT ", ToString(x), ",", ToString(current_y), ",\"", font, "\",0,1,1,\"" >>
         \o EscapeQuotes(Head(lines)) \o << "\"\n" >>
         \o TextLines_every_line(Tail(lines), font, x, current_y + LineSpacing)

RECURSIVE TextLines(_, _, _, _)
TextLines(lines, font, x, current_y) ==
    IF lines = <<>> THEN <<>>
    ELSE IF IsBlank(Head(lines)) THEN TextLines(Tail(lines), font, x, current_y)
    ELSE << "TEXT ", ToString(x), ",", ToString(current_y), ",\"", font, "\",0,1,1,\"" >>
         \o EscapeQuotes(Head(lines)) \o << "\"\n" >>
         \o TextLines(Tail(lines), font, x, current_y + LineSpacing)

\* The label sent in two writes, the PRINT command apart from the rest.
print_label_tspl_two_writes(conn, text, lbl, font, x, y, enc, out) ==
    IF ~is_connected(conn) THEN Ret("False", <<>>)
    ELSE LET body == send_text(conn, HeaderChunks(lbl) \o TextLines(text, font, x, y),
                               enc, out)
             tail == send_text(conn, << "PRINT 1\n", "\n" >>, enc, out)
         IN  Ret(tail.ret, body.writes \o tail.writes)

\* print_label_tspl(): header, one TEXT line per non-blank line, PRINT, a blank
\* line; all in one send_text.
print_label_tspl(conn, text, lbl, font, x, y, enc, out) ==
    IF ~is_connected(conn) THEN Ret("False", <<>>)
    ELSE send_text(conn,
                   HeaderChunks(lbl) \o TextLines(text, font, x, y)
                       \o << "PRINT 1\n", "\n" >>,
                   enc, out)

\* print_simple(): the text and three line feeds, no commands.
print_simple(conn, text, enc, out) ==
    IF ~is_connected(conn) THEN Ret("False", <<>>)
    ELSE send_text(conn, JoinLines(text) \o <<"\n\n\n">>, enc, out)

\* print_label(): TSPL by default; otherwise the legacy ESC/POS sequence, where
\* only the result of the text write is looked at.
RECURSIVE FeedWrites(_, _, _, _)
FeedWrites(conn, k, plan, at) ==
    IF k = 0 THEN <<>>
    ELSE send_text(conn, <<"\n">>, "ok", plan[at]).writes
         \o FeedWrites(conn, k - 1, plan, at + 1)

\* The most writes one call of print_label can attempt.
LabelWrites(cut_after, feed_lines, simple_mode, use_tspl) ==
    IF use_tspl THEN 1
    ELSE (IF simple_mode THEN 0 ELSE 2) + 1 + feed_lines
         + (IF cut_after /\ ~simple_mode THEN 1 ELSE 0)

print_label(conn, text, cut_after, feed_lines, simple_mode, use_tspl, lbl, enc, plan) ==
    IF ~is_connected(conn) THEN Ret("False", <<>>)
    ELSE IF use_tspl THEN print_label_tspl(conn, text, lbl, "2", 10, 10, enc, plan[1])
    ELSE LET init == IF simple_mode THEN <<>> ELSE initialize_printer(conn, plan).writes
             base == IF simple_mode THEN 0 ELSE 2
             body == send_text(conn, JoinLines(text) \o <<"\n">>, enc, plan[base + 1])
             feed == FeedWrites(conn, feed_lines, plan, base + 2)
             cut  == IF cut_after /\ ~simple_mode
                     THEN send_raw(conn, BinData(<<29, 86, 0>>),
                                   plan[base + 2 + feed_lines]).writes
                     ELSE <<>>
         IN  IF body.ret # "True" THEN Ret("False", init \o body.writes)
             ELSE Ret("True", init \o body.writes \o feed \o cut)

\* ---------------------------------------------------------------- images
\* A mode '1' image: its size and the set of its black (value 0) pixels.
MkImage(w, h, black) ==
    [w |-> w, h |-> h,
     ink |-> IF black THEN (0..(w - 1)) \X (0..(h - 1)) ELSE {}]

Images == {MkImage(w, h, b) : w \in 1..MaxW, h \in 1..MaxH, b \in BOOLEAN}

\* The subsets of S of at most k elements.
RECURSIVE SubsetsUpTo(_, _)
SubsetsUpTo(S, k) ==
    IF k = 0 THEN {{}}
    ELSE LET P == SubsetsUpTo(S, k - 1)
         IN  P \cup {p \cup {x} : p \in P, x \in S}

\* Images drawn pixel by pixel: a few black pixels on white, or a few white
\* pixels on black, anywhere in the image.
PixelImages ==
    UNION { LET all == (0..(w - 1)) \X (0..(h - 1))
                few == SubsetsUpTo(all, MaxInk)
            IN  {[w |-> w, h |-> h, ink |-> s] : s \in few}
                \cup {[w |-> w, h |-> h, ink |-> all \ s] : s \in few}
            : <<w, h>> \in (1..MaxW) \X (1..MaxH) }

width_bytes_truncated(width) == width \div 8

width_bytes(width) == (width + 7) \div 8

\* The inner loop, filling each byte from its least significant bit.
RECURSIVE ByteVal_lsb_first(_, _, _, _)
ByteVal_lsb_first(img, row, byte_col, bit) ==
    IF bit > 7 THEN 0
    ELSE LET pixel_x == byte_col * 8 + bit
         IN  (IF pixel_x < img.w /\ <<pixel_x, row>> \in img.ink
              THEN 2 ^ bit ELSE 0)
             + ByteVal_lsb_first(img, row, byte_col, bit + 1)

\* The inner loop, reading the pixel without the test pixel_x < width, so
\* that the bits past the right edge take the value of the row's last pixel.
RECURSIVE ByteVal_unbounded(_, _, _, _)
ByteVal_unbounded(img, row, byte_col, bit) ==
    IF bit > 7 THEN 0
    ELSE LET pixel_x == byte_col * 8 + bit
             at == IF pixel_x < img.w THEN pixel_x ELSE img.w - 1
         IN  (IF <<at, row>> \in img.ink THEN 2 ^ (7 - bit) ELSE 0)
             + ByteVal_unbounded(img, row, byte_col, bit + 1)

\* The inner loop over the 8 bits of one byte, most significant bit first.
RECURSIVE ByteVal(_, _, _, _)
ByteVal(img, row, byte_col, bit) ==
    IF bit > 7 THEN 0
    ELSE LET pixel_x == byte_col * 8 + bit
         IN  (IF pixel_x < img.w /\ <<pixel_x, row>> \in img.ink
              THEN 2 ^ (7 - bit) ELSE 0)
             + ByteVal(img, row, byte_col, bit + 1)

RECURSIVE RowBytes(_, _, _)
RowBytes(img, row, byte_col) ==
    IF byte_col >= width_bytes(img.w) THEN <<>>
    ELSE <<ByteVal(img, row, byte_col, 0)>> \o RowBytes(img, row, byte_col + 1)

RECURSIVE BitmapRows(_, _)
BitmapRows(img, row) ==
    IF row >= img.h THEN <<>>
    ELSE RowBytes(img, row, 0) \o BitmapRows(img, row + 1)

bitmap_data(img) == BitmapRows(img, 0)

BitmapChunks(img, x, y) ==
    << "BITMAP ", ToString(x), ",", ToString(y), ",",
       ToString(width_bytes(img.w)), ",", ToString(img.h), ",0," >>

PrintChunks == << "PRINT 1\n\n" >>

\* print_image_tspl(): header text, bitmap bytes, PRINT text; the results of
\* the three sends are not looked at.
print_image_tspl_print_first(conn, pdf, img, lbl, x, y, plan) ==
    IF ~pdf THEN Ret("False", <<>>)
    ELSE IF ~is_connected(conn) THEN Ret("False", <<>>)
    ELSE Ret("True",
             send_text(conn, HeaderChunks(lbl) \o BitmapChunks(img, x, y),
                       "ok", plan[1]).writes
             \o send_text(conn, PrintChunks, "ok", plan[3]).writes
             \o send_raw(conn, BinData(bitmap_data(img)), plan[2]).writes)

print_image_tspl(conn, pdf, img, lbl, x, y, plan) ==
    IF ~pdf THEN Ret("False", <<>>)
    ELSE IF ~is_connected(conn) THEN Ret("False", <<>>)
    ELSE Ret("True",
             send_text(conn, HeaderChunks(lbl) \o BitmapChunks(img, x, y),
                       "ok", plan[1]).writes
             \o send_raw(conn, BinData(bitmap_data(img)), plan[2]).writes
             \o send_text(conn, PrintChunks, "ok", plan[3]).writes)

\* ------------------------------------------------------------- print_pdf
\* mm * dpi / 25.4 to the nearest integer.
TargetDots_rounded(mm, dpi) == (mm * dpi * 10 + 127) \div 254

\* int(mm * dpi / 25.4): int() drops the fraction, towards zero.
TargetDots(mm, dpi) ==
    IF mm * dpi >= 0 THEN (mm * dpi * 10) \div 254
    ELSE 0 - ((0 - mm * dpi * 10) \div 254)

\* What opening and rendering page 0 of the file comes to.
RenderOutcome == {"ok", "no_pages", "exception"}

\* Small labels keep the composed image within reach: 1 mm at 203 dpi is 7
\* dots.
PdfLabels ==
    { [w |-> 1, h |-> 1, gap |-> 2], [w |-> 2, h |-> 1, gap |-> 2] }

DefaultDpi == 203

\* The image pipeline, followed on the size of the image: its pixels are not
\* kept, only whether the composed label ends up with ink on it.
Size(w, h) == [w |-> w, h |-> h]

\* manual_crop_coords: None, or (left, top, right, bottom) in whole pixels of
\* the 150 DPI selection view.
NoCoords == [given |-> FALSE, l |-> 0, t |-> 0, r |-> 0, b |-> 0]
Coords(l, t, r, b) == [given |-> TRUE, l |-> l, t |-> t, r |-> r, b |-> b]

Box(l, t, r, b) == [l |-> l, t |-> t, r |-> r, b |-> b]
NoBox == Box(0, 0, 0, 0)

\* One image operation of the pipeline: which, on an image of what size, and
\* for a crop the box cut out and the factor its coordinates were scaled by.
Step(op, by, of, box, factor) ==
    [op |-> op, by |-> by, of |-> of, box |-> box, factor |-> factor]

RenderDpi == 300
SelectionDpi == 150

Min2(a, b) == IF a < b THEN a ELSE b
Max2(a, b) == IF a > b THEN a ELSE b

\* max(0, min(v, bound))
Clamp(v, bound) == Max2(0, Min2(v, bound))

\* int(left * f), ... and the clamp to the bounds of the image.
ClampedBox(c, f, size) ==
    Box(Clamp(c.l * f, size.w), Clamp(c.t * f, size.h),
        Clamp(c.r * f, size.w), Clamp(c.b * f, size.h))

ValidBox(box) == box.r > box.l /\ box.b > box.t

BoxSize(box) == Size(box.r - box.l, box.b - box.t)

\* ------------------------------------------------------ what is on a page
\* A grayscale image: white (255) with filled rectangles of gray value v on it,
\* each inside the image, [l, r) by [t, b).
Ink(l, t, r, b, v) == [l |-> l, t |-> t, r |-> r, b |-> b, v |-> v]
Sheet(w, h, ink) == [w |-> w, h |-> h, ink |-> ink]

\* Pixels of row y, between columns x0 and x1, that the given inks cover.
RowCount(inks, y, x0, x1) ==
    Cardinality(UNION { Max2(q.l, x0)..(Min2(q.r, x1) - 1) :
                        q \in {p \in inks : p.t <= y /\ y < p.b} })

ColCount(inks, x, y0, y1) ==
    Cardinality(UNION { Max2(q.t, y0)..(Min2(q.b, y1) - 1) :
                        q \in {p \in inks : p.l <= x /\ x < p.r} })

MinOf(S) == CHOOSE m \in S : \A n \in S : m <= n
MaxOf(S) == CHOOSE m \in S : \A n \in S : m >= n

\* The thresholds and margins of the two crops.
WhiteThreshold == 250
WhitespaceMargin == 10
DarkThreshold == 180
gap_threshold == 20
border_margin == 3
MinRegion == 100

\* The outcome of a crop: the region cut, and by what ("none": the image is
\* handed back as it is); cand is the label region found before it is judged.
Cropped(cand, box, by) == [cand |-> cand, box |-> box, by |-> by]

\* _crop_whitespace(): the bounding box of all pixels not lighter than 250,
\* widened by 10 pixels and kept inside the image.
_crop_whitespace_unclamped(s) ==
    LET inks == {p \in s.ink : ~(p.v > WhiteThreshold)}
    IN  IF inks = {} THEN Cropped(NoBox, Box(0, 0, s.w, s.h), "none")
        ELSE Cropped(NoBox,
                     Box(MinOf({p.l : p \in inks}) - WhitespaceMargin,
                         MinOf({p.t : p \in inks}) - WhitespaceMargin,
                         MaxOf({p.r : p \in inks}) + WhitespaceMargin,
                         MaxOf({p.b : p \in inks}) + WhitespaceMargin),
                     "whitespace")

_crop_whitespace(s) ==
    LET inks == {p \in s.ink : ~(p.v > WhiteThreshold)}
    IN  IF inks = {} THEN Cropped(NoBox, Box(0, 0, s.w, s.h), "none")
        ELSE Cropped(NoBox,
                     Box(Max2(0, MinOf({p.l : p \in inks}) - WhitespaceMargin),
                         Max2(0, MinOf({p.t : p \in inks}) - WhitespaceMargin),
                         Min2(s.w, MaxOf({p.r : p \in inks}) + WhitespaceMargin),
                         Min2(s.h, MaxOf({p.b : p \in inks}) + WhitespaceMargin)),
                     "whitespace")

\* The scan for the gap under the label, from 50 rows under the top: a row
\* has content when more than 2% of it is dark; gap_start is 0 at first and
\* then the row after each run of content rows; at the first row of a run
\* that is more than 20 rows after gap_start, with gap_start more than 100
\* rows under the top, the label ends at gap_start.  The height when no such
\* gap is found.
GapScan(s, dark, top) ==
    LET content == {y \in (top + 50)..(s.h - 1) : 50 * RowCount(dark, y, 0, s.w) > s.w}
        gap_starts == {0} \cup {y \in (top + 51)..(s.h - 1) :
                                  y \notin content /\ (y - 1) \in content}
        run_starts == {y \in content : y = top + 50 \/ (y - 1) \notin content}
        gap_start(y) == MaxOf({g \in gap_starts : g < y})
        found == {y \in run_starts : /\ y - gap_start(y) > gap_threshold
                                     /\ gap_start(y) > top + 100}
    IN  IF found = {} THEN s.h ELSE gap_start(MinOf(found))

\* The label region _crop_to_label finds, before the margin: rows and columns
\* more than 15% dark are lines; the top is the first line below 2% of the
\* height, the bottom the start of a gap of more than 20 rows or else 5 rows
\* under the lowest row more than 30% dark, left and right the outermost
\* vertical lines between 2% and 98% of the width; the top is then moved to
\* the first row more than 20% dark between left and right.
LabelRegion(s) ==
    LET dark == {p \in s.ink : p.v < DarkThreshold}
        horizontal_lines == {y \in 0..(s.h - 1) : 20 * RowCount(dark, y, 0, s.w) > 3 * s.w}
        vertical_lines == {x \in 0..(s.w - 1) : 20 * ColCount(dark, x, 0, s.h) > 3 * s.h}
        tops == {y \in horizontal_lines : 50 * y > s.h}
        top == IF tops = {} THEN 0 ELSE MinOf(tops)
        gap == GapScan(s, dark, top)
        strong == {y \in (top + 101)..(s.h - 50) : 10 * RowCount(dark, y, 0, s.w) > 3 * s.w}
        bottom == IF gap # s.h THEN gap
                  ELSE IF strong = {} THEN s.h ELSE MaxOf(strong) + 5
        lefts == {x \in vertical_lines : 50 * x > s.w}
        left == IF lefts = {} THEN 0 ELSE MinOf(lefts)
        rights == {x \in vertical_lines : 50 * x < 49 * s.w}
        right == IF rights = {} THEN s.w ELSE MaxOf(rights)
        refined == {y \in 0..(Min2(top + 50, s.h) - 1) :
                        5 * RowCount(dark, y, left, right) > right - left}
    IN  Box(left, IF refined = {} THEN top ELSE MinOf(refined), right, bottom)

\* _crop_to_label(): the region found, drawn in by the border margin, is cut
\* when it is more than 100 pixels wide and high; otherwise _crop_whitespace.
_crop_to_label_no_fallback(s) ==
    LET f == LabelRegion(s)
        box == Box(Min2(f.l + border_margin, s.w), Min2(f.t + border_margin, s.h),
                   Max2(f.r - border_margin, 0), Max2(f.b - border_margin, 0))
    IN  IF box.r - box.l > MinRegion /\ box.b - box.t > MinRegion
        THEN Cropped(box, box, "label")
        ELSE Cropped(box, Box(0, 0, s.w, s.h), "none")

_crop_to_label(s) ==
    LET f == LabelRegion(s)
        box == Box(Min2(f.l + border_margin, s.w), Min2(f.t + border_margin, s.h),
                   Max2(f.r - border_margin, 0), Max2(f.b - border_margin, 0))
    IN  IF box.r - box.l > MinRegion /\ box.b - box.t > MinRegion
        THEN Cropped(box, box, "label")
        ELSE [_crop_whitespace(s) EXCEPT !.cand = box]

\* The crop stage cutting whatever region it is given, valid or not.
CropStage_no_validity_test(page, opts) ==
    IF opts.coords.given
    THEN LET box == ClampedBox(opts.coords, RenderDpi \div SelectionDpi, page)
         IN  [img |-> Size(Max2(1, box.r - box.l), Max2(1, box.b - box.t)),
              steps |-> << Step("crop", "manual", page, box,
                                RenderDpi \div SelectionDpi) >>]
    ELSE IF opts.auto_crop
    THEN [img |-> BoxSize(opts.found.box),
          steps |-> << Step("crop", "auto", page, opts.found.box, 1) >>]
    ELSE [img |-> page, steps |-> <<>>]

\* The crop of the rendered page: a manual region, scaled from the selection
\* view to the render, comes first; else _crop_to_label, which hands back the
\* region opts.found.box of the page.
CropStage(page, opts) ==
    IF opts.coords.given
    THEN LET box == ClampedBox(opts.coords, RenderDpi \div SelectionDpi, page)
         IN  IF ValidBox(box)
             THEN [img |-> BoxSize(box),
                   steps |-> << Step("crop", "manual", page, box,
                                     RenderDpi \div SelectionDpi) >>]
             ELSE [img |-> page, steps |-> <<>>]
    ELSE IF opts.auto_crop
    THEN [img |-> BoxSize(opts.found.box),
          steps |-> << Step("crop", "auto", page, opts.found.box, 1) >>]
    ELSE [img |-> page, steps |-> <<>>]

\* The rotation made whenever the image is wider than high.
RotateStage_landscape(img, target, auto_rotate) ==
    IF auto_rotate /\ img.w > img.h
    THEN [img |-> Size(img.h, img.w), steps |-> << Step("rotate", "", img, NoBox, 1) >>]
    ELSE [img |-> img, steps |-> <<>>]

\* rotate(90, expand=True) when image and label differ in orientation.
RotateStage(img, target, auto_rotate) ==
    IF auto_rotate /\ ((img.w > img.h) # (target.w > target.h))
    THEN [img |-> Size(img.h, img.w), steps |-> << Step("rotate", "", img, NoBox, 1) >>]
    ELSE [img |-> img, steps |-> <<>>]

\* rotate(180, expand=False)
FlipStage(img, flip_vertical) ==
    IF flip_vertical THEN << Step("flip", "", img, NoBox, 1) >> ELSE <<>>

\* The scaling by the larger of the two ratios.
ScaledSize_larger_ratio(img, target) ==
    IF target.w * img.h >= target.h * img.w
    THEN Size(target.w, (img.h * target.w) \div img.w)
    ELSE Size((img.w * target.h) \div img.h, target.h)

\* scale = min(target.w / img.w, target.h / img.h); the new size is
\* (int(img.w * scale), int(img.h * scale)).
ScaledSize(img, target) ==
    IF target.w * img.h <= target.h * img.w
    THEN Size(target.w, (img.h * target.w) \div img.w)
    ELSE Size((img.w * target.h) \div img.h, target.h)

\* What the pipeline comes to: ok or an exception, the operations applied, the
\* target size and the size of the image it ends with.
Piped(ok, steps, target, final) ==
    [ok |-> ok, steps |-> steps, target |-> target, final |-> final]

\* The composition with the cut of the canvas handed on as it is, not
\* stretched back to the label size.
ComposeStage_keeps_cut(scaled, target, coords) ==
    LET box == ClampedBox(coords, 1, target)
    IN  IF coords.given /\ ValidBox(box)
        THEN [img |-> BoxSize(box),
              steps |-> << Step("compose", "", scaled, NoBox, 1),
                           Step("crop", "manual", target, box, 1) >>]
        ELSE [img |-> target, steps |-> << Step("compose", "", scaled, NoBox, 1) >>]

\* The composition of print_pdf: the scaled image is pasted on a canvas of the
\* label size; with a manual region, the region (taken as it is, in canvas
\* pixels) is then cut out of the canvas and resized back to the label size.
ComposeStage(scaled, target, coords) ==
    LET box == ClampedBox(coords, 1, target)
    IN  IF coords.given /\ ValidBox(box)
        THEN [img |-> target,
              steps |-> << Step("compose", "", scaled, NoBox, 1),
                           Step("crop", "manual", target, box, 1),
                           Step("scale", "", BoxSize(box), NoBox, 1) >>]
        ELSE [img |-> target, steps |-> << Step("compose", "", scaled, NoBox, 1) >>]

\* print_pdf from the rendered page to the image handed to print_image_tspl.
\* Image.resize raises on a size below 1, the label aspect on a height of 0.
PdfPipeline(page, opts, lbl, dpi) ==
    LET target == Size(TargetDots(lbl.w, dpi), TargetDots(lbl.h, dpi))
        c == CropStage(page, opts)
        r == RotateStage(c.img, target, opts.auto_rotate)
        f == FlipStage(r.img, opts.flip_vertical)
        n == ScaledSize(r.img, target)
        m == ComposeStage(n, target, opts.coords)
    IN  IF target.h = 0 THEN Piped(FALSE, c.steps, target, c.img)
        ELSE IF n.w < 1 \/ n.h < 1
        THEN Piped(FALSE, c.steps \o r.steps \o f, target, r.img)
        ELSE Piped(TRUE,
                   c.steps \o r.steps \o f
                       \o << Step("scale", "", r.img, NoBox, 1) >>
                       \o m.steps
                       \o << Step("binarize", "", m.img, NoBox, 1) >>
                       \o (IF opts.invert
                           THEN << Step("invert", "", m.img, NoBox, 1) >> ELSE <<>>),
                   target, m.img)

\* The page and the options of a call that gives none: a portrait page, the
\* label search keeping all of it.
DefaultPage == Size(10, 20)
DefaultOpts ==
    [auto_rotate |-> TRUE, auto_crop |-> TRUE, invert |-> TRUE, coords |-> NoCoords,
     flip_vertical |-> FALSE,
     found |-> _crop_to_label(Sheet(DefaultPage.w, DefaultPage.h, {}))]

\* _show_processed_preview of the GUI: the same steps at the printer's 203 dpi,
\* with one crop and no inversion; the result is kept as cropped_image.
_show_processed_preview(page, opts, lbl) ==
    LET target == Size(TargetDots(lbl.w, DefaultDpi), TargetDots(lbl.h, DefaultDpi))
        c == CropStage(page, opts)
        r == RotateStage(c.img, target, opts.auto_rotate)
        f == FlipStage(r.img, opts.flip_vertical)
        n == ScaledSize(r.img, target)
    IN  IF n.w < 1 \/ n.h < 1
        THEN Piped(FALSE, c.steps \o r.steps \o f, target, r.img)
        ELSE Piped(TRUE,
                   c.steps \o r.steps \o f
                       \o << Step("scale", "", r.img, NoBox, 1),
                             Step("compose", "", n, NoBox, 1),
                             Step("binarize", "", target, NoBox, 1) >>,
                   target, target)

print_pdf(conn, pdf, exists, render, page, opts, lbl, dpi, black, plan) ==
    IF ~pdf THEN Ret("False", <<>>)
    ELSE IF ~is_connected(conn) THEN Ret("False", <<>>)
    ELSE IF ~exists THEN Ret("False", <<>>)
    ELSE IF render # "ok" THEN Ret("False", <<>>)
    ELSE LET p == PdfPipeline(page, opts, lbl, dpi)
         IN  IF ~p.ok THEN Ret("False", <<>>)
             ELSE print_image_tspl(conn, pdf, MkImage(p.final.w, p.final.h, black),
                                   lbl, 0, 0, plan)

\* ------------------------------------------------------- the GUI window
\* LabelPrinterApp: the manual-crop selection, the three buttons, the print
\* workers and Tk's queue of after() callbacks.  Status texts, the progress
\* bar and message boxes change nothing that is modelled and are left out.
NoPoint == [set |-> FALSE, x |-> 0, y |-> 0]
Point(x, y) == [set |-> TRUE, x |-> x, y |-> y]

\* The PDF page at 150 DPI as shown for selection, its thumbnail on the
\* 400 x 600 canvas, and the thumbnail's top-left corner there.
GuiPdfSize == Size(600, 1200)
GuiPreviewSize == Size(300, 600)
GuiPreviewOffset == Point((400 - GuiPreviewSize.w) \div 2, (600 - GuiPreviewSize.h) \div 2)

\* Render results of a preview: fitz or PIL may raise, _update_preview catches.
GuiRenderOutcome == {"ok", "Exception"}

GuiInit ==
    [pdf_path |-> FALSE, manual_crop |-> FALSE, auto_crop |-> TRUE,
     crop_applied |-> FALSE, crop_coords |-> NoCoords, pending_crop |-> NoCoords,
     crop_start |-> NoPoint, original_pdf_size |-> FALSE, cropped_image |-> FALSE,
     apply_crop_btn |-> "disabled", clear_crop_btn |-> "disabled",
     print_btn |-> "normal", threads |-> <<>>, leaked |-> FALSE, queue |-> <<>>]

\* _update_preview(): the full page for selection while a manual crop is being
\* chosen, the processed image otherwise.
_update_preview(g, render) ==
    IF ~g.pdf_path \/ render # "ok" THEN g
    ELSE IF g.manual_crop /\ ~g.crop_applied THEN [g EXCEPT !.original_pdf_size = TRUE]
    ELSE [g EXCEPT !.cropped_image = TRUE]

\* _select_pdf() with a file chosen in the dialog.
_select_pdf(g, render) == _update_preview([g EXCEPT !.pdf_path = TRUE], render)

\* _toggle_manual_crop(): g.manual_crop is the check box after the click.
_toggle_manual_crop(g, render) ==
    _update_preview(
        IF g.manual_crop
        THEN [g EXCEPT !.auto_crop = FALSE, !.crop_applied = FALSE,
                       !.crop_coords = NoCoords, !.pending_crop = NoCoords,
                       !.apply_crop_btn = "disabled", !.clear_crop_btn = "normal"]
        ELSE [g EXCEPT !.crop_applied = FALSE,
                       !.crop_coords = NoCoords, !.pending_crop = NoCoords,
                       !.apply_crop_btn = "disabled", !.clear_crop_btn = "disabled"],
        render)

_crop_start(g, pt) ==
    IF ~g.manual_crop \/ g.crop_applied THEN g
    ELSE IF ~g.original_pdf_size THEN g
    ELSE [g EXCEPT !.crop_start = pt]

\* (canvas - img_x1) / pdf_display_scale, clamped to 0..size, as a number of
\* 1/preview-ths of a pixel: canvas positions are whole, the scale is
\* preview / size.
PdfCoord(c, off, preview, size) == Clamp((c - off) * size, size * preview)

\* _crop_end(): the selection in page pixels becomes pending when it is more
\* than 20 pixels wide and high.
_crop_end_while_applied(g, pt) ==
    IF ~g.manual_crop THEN g
    ELSE IF ~g.crop_start.set THEN g
    ELSE IF ~g.original_pdf_size THEN g
    ELSE LET pw == GuiPreviewSize.w
             ph == GuiPreviewSize.h
             l == PdfCoord(Min2(g.crop_start.x, pt.x), GuiPreviewOffset.x, pw, GuiPdfSize.w)
             r == PdfCoord(Max2(g.crop_start.x, pt.x), GuiPreviewOffset.x, pw, GuiPdfSize.w)
             t == PdfCoord(Min2(g.crop_start.y, pt.y), GuiPreviewOffset.y, ph, GuiPdfSize.h)
             b == PdfCoord(Max2(g.crop_start.y, pt.y), GuiPreviewOffset.y, ph, GuiPdfSize.h)
         IN  IF r - l > 20 * pw /\ b - t > 20 * ph
             THEN [g EXCEPT !.pending_crop = Coords(l \div pw, t \div ph, r \div pw, b \div ph),
                            !.apply_crop_btn = "normal", !.crop_start = NoPoint]
             ELSE [g EXCEPT !.crop_start = NoPoint]

_crop_end(g, pt) ==
    IF ~g.manual_crop \/ g.crop_applied THEN g
    ELSE IF ~g.crop_start.set THEN g
    ELSE IF ~g.original_pdf_size THEN g
    ELSE LET pw == GuiPreviewSize.w
             ph == GuiPreviewSize.h
             l == PdfCoord(Min2(g.crop_start.x, pt.x), GuiPreviewOffset.x, pw, GuiPdfSize.w)
             r == PdfCoord(Max2(g.crop_start.x, pt.x), GuiPreviewOffset.x, pw, GuiPdfSize.w)
             t == PdfCoord(Min2(g.crop_start.y, pt.y), GuiPreviewOffset.y, ph, GuiPdfSize.h)
             b == PdfCoord(Max2(g.crop_start.y, pt.y), GuiPreviewOffset.y, ph, GuiPdfSize.h)
         IN  IF r - l > 20 * pw /\ b - t > 20 * ph
             THEN [g EXCEPT !.pending_crop = Coords(l \div pw, t \div ph, r \div pw, b \div ph),
                            !.apply_crop_btn = "normal", !.crop_start = NoPoint]
             ELSE [g EXCEPT !.crop_start = NoPoint]

_apply_crop(g, render) ==
    IF g.pending_crop.given
    THEN _update_preview([g EXCEPT !.crop_coords = g.pending_crop, !.crop_applied = TRUE,
                                   !.pending_crop = NoCoords,
                                   !.apply_crop_btn = "disabled"], render)
    ELSE g

_clear_crop(g, render) ==
    _update_preview([g EXCEPT !.crop_coords = NoCoords, !.pending_crop = NoCoords,
                              !.crop_applied = FALSE, !.apply_crop_btn = "disabled"],
                    render)

\* A print worker: where it is in _do_print, and the connection of its printer.
Worker(pc, conn) == [pc |-> pc, conn |-> conn, success |-> "None"]

\* _print_label(): without a PDF a warning only; otherwise the button goes
\* grey and a worker thread starts.
_print_label(g) ==
    IF ~g.pdf_path THEN g
    ELSE [g EXCEPT !.print_btn = "disabled",
                   !.threads = Append(@, Worker("connect", "None"))]

\* _reset_print_button(), run by Tk's main loop.
_reset_print_button(g) == [g EXCEPT !.print_btn = "normal"]

\* ------------------------------------------------------------- the state
NoJob == [kind |-> "none"]
NoRequest == [kind |-> "none", opened |-> FALSE, conn |-> "None", path |-> "none"]

Init ==
    /\ PDF_SUPPORT \in BOOLEAN
    /\ connection = "None"
    /\ openCount = 0
    /\ lastOp = "idle"
    /\ wasConnected = FALSE
    /\ result = "None"
    /\ log = <<>>
    /\ job = NoJob
    /\ fe = NoRequest
    /\ gui = GuiInit

\* What every method call records: its name, whether the printer was connected
\* on entry, its outcome and its arguments.
Called(op, r, j) ==
    /\ lastOp = "idle"
    /\ lastOp' = op
    /\ wasConnected' = is_connected(connection)
    /\ result' = r.ret
    /\ log' = r.writes
    /\ job' = j

\* The send and print methods read self.connection and never assign it.
Sends_closes_on_failure(op, r, j) ==
    /\ Called(op, r, j)
    /\ connection' = IF r.ret = "False" /\ r.writes # <<>> THEN "None" ELSE connection
    /\ UNCHANGED <<PDF_SUPPORT, openCount, fe, gui>>

Sends(op, r, j) ==
    /\ Called(op, r, j)
    /\ UNCHANGED <<PDF_SUPPORT, connection, openCount, fe, gui>>

\* The caller takes the outcome; the record of the call is dropped and the
\* printer is ready for the next call.
Return ==
    /\ lastOp # "idle"
    /\ lastOp' = "idle"
    /\ wasConnected' = FALSE
    /\ result' = "None"
    /\ log' = <<>>
    /\ job' = NoJob
    /\ fe' = NoRequest
    /\ UNCHANGED <<PDF_SUPPORT, connection, openCount, gui>>

\* -------------------------------------------------- connection methods
Connect ==
    /\ lastOp = "idle"
    /\ \E out \in OpenOutcome :
        LET c == connect(connection, out)
        IN  /\ openCount + c.opens <= MaxOpens
            /\ connection' = c.conn
            /\ openCount' = openCount + c.opens
            /\ Called("connect", Ret(c.ret, <<>>), [kind |-> "connect", out |-> out])
            /\ UNCHANGED <<PDF_SUPPORT, fe, gui>>

Disconnect ==
    LET d == disconnect(connection)
    IN  /\ lastOp = "idle"
        /\ connection' = d.conn
        /\ Called("disconnect", Ret("None", <<>>), [kind |-> "disconnect", closed |-> d.closed])
        /\ UNCHANGED <<PDF_SUPPORT, openCount, fe, gui>>

\* -------------------------------------------------------- send methods
RawInputs == { <<>>, <<27, 64>>, <<1, 2, 3>> }

SendRaw ==
    /\ lastOp = "idle"
    /\ \E bytes \in RawInputs, out \in Outcome :
        Sends("send_raw", send_raw(connection, BinData(bytes), out),
              [kind |-> "bytes", len |-> Len(bytes)])

SendText ==
    /\ lastOp = "idle"
    /\ \E text \in Texts, enc \in CodecOutcome, out \in Outcome :
        Sends("send_text", send_text(connection, JoinLines(text), enc, out),
              [kind |-> "text", len |-> Len(JoinLines(text))])

SendFile ==
    /\ lastOp = "idle"
    /\ \E file \in FileOutcome, bytes \in RawInputs, out \in Outcome :
        Sends("send_file", send_file(connection, file, bytes, out),
              [kind |-> "bytes", len |-> Len(bytes)])

SendEscPosCommand ==
    /\ lastOp = "idle"
    /\ \E bytes \in RawInputs, out \in Outcome :
        Sends("send_esc_pos_command", send_esc_pos_command(connection, bytes, out),
              [kind |-> "bytes", len |-> Len(bytes)])

InitializePrinter ==
    /\ lastOp = "idle"
    /\ \E plan \in FaultPlans(2) :
        Sends("initialize_printer", initialize_printer(connection, plan), NoJob)

\* ------------------------------------------------------- print methods
PrintSimple ==
    /\ lastOp = "idle"
    /\ \E text \in Texts, enc \in CodecOutcome, out \in Outcome :
        Sends("print_simple", print_simple(connection, text, enc, out),
              [kind |-> "text", len |-> Len(JoinLines(text)) + 3])

\* The y of the first line: the default, and another.
LabelYs == {10, 25}

PrintLabelTspl ==
    /\ lastOp = "idle"
    /\ \E text \in Texts, lbl \in LabelSpecs, y \in LabelYs,
          enc \in EncodeOutcome, out \in Outcome :
        Sends("print_label_tspl",
              print_label_tspl(connection, text, lbl, "2", 10, y, enc, out),
              [kind |-> "label", text |-> text, lbl |-> lbl, x |-> 10, y |-> y,
               enc |-> enc])

PrintLabel ==
    /\ lastOp = "idle"
    /\ \E text \in Texts, cut_after \in BOOLEAN, simple_mode \in BOOLEAN,
       use_tspl \in BOOLEAN, feed_lines \in 0..MaxFeed, enc \in EncodeOutcome :
      \E plan \in FaultPlans(LabelWrites(cut_after, feed_lines, simple_mode, use_tspl)) :
        Sends("print_label",
              print_label(connection, text, cut_after, feed_lines, simple_mode,
                          use_tspl, [w |-> 40, h |-> 30, gap |-> 2], enc, plan),
              [kind |-> "label", text |-> text, use_tspl |-> use_tspl])

PrintImageTspl ==
    /\ lastOp = "idle"
    /\ \E img \in Images, lbl \in LabelSpecs, plan \in FaultPlans(3) :
        Sends("print_image_tspl",
              print_image_tspl(connection, PDF_SUPPORT, img, lbl, 0, 0, plan),
              [kind |-> "image", img |-> img, lbl |-> lbl])

\* The arguments of a print_pdf call, the pipeline it ran, whether it got as
\* far as print_image_tspl and the image it had for it (none: an empty one).
PdfJob(exists, render, page, opts, lbl, dpi, black) ==
    LET p == PdfPipeline(page, opts, lbl, dpi)
    IN  [kind |-> "pdf",
         img |-> IF p.ok THEN MkImage(p.final.w, p.final.h, black)
                 ELSE MkImage(0, 0, FALSE),
         lbl |-> lbl,
         reached |-> exists /\ render = "ok" /\ p.ok,
         rendered |-> exists /\ render = "ok",
         page |-> page, opts |-> opts, dpi |-> dpi, pipe |-> p]

PrintPdf ==
    /\ lastOp = "idle"
    /\ \E exists \in BOOLEAN, render \in RenderOutcome, lbl \in PdfLabels,
       black \in BOOLEAN, plan \in FaultPlans(3) :
        Sends("print_pdf",
              print_pdf(connection, PDF_SUPPORT, exists, render, DefaultPage,
                        DefaultOpts, lbl, DefaultDpi, black, plan),
              PdfJob(exists, render, DefaultPage, DefaultOpts, lbl, DefaultDpi, black))

\* ------------------------------------------------------------ front ends
\* A front-end request: whether its connect() succeeded, the state its printer
\* is left in, and the path it took.
Request(kind, opened, conn, path) ==
    [kind |-> kind, opened |-> opened, conn |-> conn, path |-> path]

\* with BluetoothPrinter(...) as p: __enter__ connects (result ignored), the
\* body runs, __exit__ disconnects, also when the body raises.
WithBodies == {"nothing", "print_simple", "raise"}

WithBlock ==
    /\ lastOp = "idle"
    /\ \E out \in OpenOutcome, body \in WithBodies, wout \in Outcome :
        LET c == connect(connection, out)
            r == IF body = "print_simple"
                 THEN print_simple(c.conn, << <<"H", "i">> >>, "ok", wout)
                 ELSE Ret("None", <<>>)
            d == disconnect(c.conn)
        IN  /\ openCount + c.opens <= MaxOpens
            /\ connection' = d.conn
            /\ openCount' = openCount + c.opens
            /\ Called("with", Ret(IF body = "raise" THEN "Raised" ELSE "None", r.writes),
                      NoJob)
            /\ fe' = Request("with", is_connected(c.conn), d.conn, body)
            /\ UNCHANGED <<PDF_SUPPORT, gui>>

\* The command-line main: a fresh printer, connect, one command, and
\* printer.disconnect() in the finally clause around all of it.
CliCommands == {"raw_hex", "bad_hex", "test", "text", "pdf", "file", "none"}
CliEvents == {"none", "KeyboardInterrupt"}

CliCommand(conn, cmd, simple, plan) ==
    CASE cmd = "raw_hex" -> send_raw(conn, BinData(<<27, 64>>), plan[1])
      [] cmd \in {"test", "text"} ->
            IF simple
            THEN print_simple(conn, << <<"H", "i">> >>, "ok", plan[1])
            ELSE print_label(conn, << <<"H", "i">> >>, TRUE, 3, FALSE, TRUE,
                             [w |-> 101, h |-> 152, gap |-> 2], "ok", plan)
      [] cmd = "pdf" ->
            print_pdf(conn, PDF_SUPPORT, TRUE, "ok", DefaultPage, DefaultOpts,
                      [w |-> 1, h |-> 1, gap |-> 2], DefaultDpi, TRUE, plan)
      [] cmd = "file" -> send_file(conn, "ok", <<1, 2, 3>>, plan[1])
      [] OTHER -> Ret("None", <<>>)

CliMain ==
    /\ lastOp = "idle"
    /\ \E out \in OpenOutcome, cmd \in CliCommands, simple \in BOOLEAN,
       ev \in CliEvents, plan \in FaultPlans(3) :
        LET c == connect("None", out)
            ran == c.ret = "True" /\ ev = "none"
            r == IF ran THEN CliCommand(c.conn, cmd, simple, plan) ELSE Ret("None", <<>>)
            d == disconnect(c.conn)
            path == IF c.ret # "True" THEN "exit(1)"
                    ELSE IF ev # "none" THEN ev
                    ELSE IF cmd = "bad_hex" THEN "exit(1)"
                    ELSE cmd
        IN  /\ fe' = Request("cli", c.ret = "True", d.conn, path)
            /\ Called("main", Ret(IF path = "exit(1)" THEN "Raised" ELSE "None", r.writes),
                      NoJob)
            /\ UNCHANGED <<PDF_SUPPORT, connection, openCount, gui>>

\* The GUI print worker.  An exception may come out of any Tk call or of the
\* image handling; where it is raised decides which handlers run:
\*   pre_connect   before printer.connect()
\*   post_connect  in the progress and status updates right after connect()
\*   in_print      inside the inner try, before or instead of the print call
\*   post_print    inside the inner try, after the print call
GuiRaise == {"none", "pre_connect", "post_connect", "in_print", "post_print"}
GuiModes == {"cropped_image", "pdf"}

\* The print call of the worker; the GUI module imports PIL and fitz itself,
\* so the printer it uses has PDF support.
GuiPrint(conn, mode, plan) ==
    IF mode = "cropped_image"
    THEN print_image_tspl(conn, TRUE, MkImage(MaxW, MaxH, TRUE),
                          [w |-> 101, h |-> 152, gap |-> 2], 0, 0, plan)
    ELSE print_pdf(conn, TRUE, TRUE, "ok", DefaultPage, DefaultOpts,
                   [w |-> 1, h |-> 1, gap |-> 2], DefaultDpi, TRUE, plan)

_do_print(out, exc, mode, plan) ==
    IF exc = "pre_connect" THEN [conn |-> "None", opened |-> FALSE, r |-> Ret("None", <<>>)]
    ELSE LET c == connect("None", out)
         IN  IF c.ret # "True"
             THEN [conn |-> c.conn, opened |-> FALSE, r |-> Ret("None", <<>>)]
             ELSE IF exc = "post_connect"
             THEN [conn |-> c.conn, opened |-> TRUE, r |-> Ret("None", <<>>)]
             ELSE [conn |-> disconnect(c.conn).conn, opened |-> TRUE,
                   r |-> IF exc = "in_print" THEN Ret("None", <<>>)
                         ELSE GuiPrint(c.conn, mode, plan)]

\* The GUI module imports PIL and fitz itself, so it only runs with them.
GuiDoPrint ==
    /\ lastOp = "idle"
    /\ PDF_SUPPORT
    /\ \E out \in OpenOutcome, exc \in GuiRaise, mode \in GuiModes, plan \in FaultPlans(3) :
        LET g == _do_print(out, exc, mode, plan)
        IN  /\ fe' = Request("gui", g.opened, g.conn, exc)
            /\ Called("_do_print", Ret("None", g.r.writes), NoJob)
            /\ UNCHANGED <<PDF_SUPPORT, connection, openCount, gui>>

Next ==
    \/ Return
    \/ Connect
    \/ Disconnect
    \/ SendRaw
    \/ SendText
    \/ SendFile
    \/ SendEscPosCommand
    \/ InitializePrinter
    \/ PrintSimple
    \/ PrintLabelTspl
    \/ PrintLabel
    \/ PrintImageTspl
    \/ PrintPdf
    \/ WithBlock
    \/ CliMain
    \/ GuiDoPrint

Spec == Init /\ [][Next]_vars

\* ------------------------------------------------- the bitmap encoder
\* print_image_tspl on images drawn pixel by pixel, every write going through:
\* what the encoder puts on the wire for each pattern of pixels.
AllOk == [i \in 1..3 |-> "ok"]

PrintPixelImage ==
    /\ lastOp = "idle"
    /\ \E img \in PixelImages :
        Sends("print_image_tspl",
              print_image_tspl(connection, PDF_SUPPORT, img,
                               [w |-> 40, h |-> 30, gap |-> 2], 0, 0, AllOk),
              [kind |-> "image", img |-> img, lbl |-> [w |-> 40, h |-> 30, gap |-> 2]])

NextBitmap ==
    \/ Return
    \/ Connect
    \/ PrintPixelImage

SpecBitmap == Init /\ [][NextBitmap]_vars

\* ------------------------------------------------------- the two crops
\* _crop_to_label and _crop_whitespace on drawn pages: blank ones, the page
\* with border lines across it at y = 50, 950 and x = 40, 960, and framed
\* labels of several sizes, insets and gray values, alone, with a block of
\* text inside the frame or with one under it.
Frame(l, t, r, b, v) ==
    { Ink(l, t, r + 1, t + 1, v), Ink(l, b, r + 1, b + 1, v),
      Ink(l, t, l + 1, b + 1, v), Ink(r, t, r + 1, b + 1, v) }

LinedSheet ==
    Sheet(1000, 1000, { Ink(0, 50, 1000, 51, 0), Ink(0, 950, 1000, 951, 0),
                        Ink(40, 0, 41, 1000, 0), Ink(960, 0, 961, 1000, 0) })

SheetSizes == {Size(1000, 1000), Size(260, 400), Size(130, 130)}

FramedSheets ==
    { Sheet(sz.w, sz.h,
            Frame(m, n, sz.w - m, sz.h - n - 60, v)
            \cup (CASE extra = "inside" ->
                         {Ink(m + 5, n + 60, sz.w - m - 5, n + 62, v)}
                    [] extra = "under" ->
                         {Ink(m, sz.h - n - 30, sz.w - m, sz.h - n - 20, v)}
                    [] OTHER -> {})) :
        sz \in SheetSizes, m \in {4, 30}, n \in {2, 30},
        v \in {0, 200, 252}, extra \in {"none", "inside", "under"} }

\* The pages of the pipeline with nothing, a dot or a bar on them.
SmallSheets ==
    UNION { { Sheet(sz.w, sz.h, {}),
              Sheet(sz.w, sz.h, {Ink(sz.w - 2, 0, sz.w, 1, 0)}),
              Sheet(sz.w, sz.h, {Ink(0, 0, 2, sz.h, 200)}) } :
            sz \in {Size(10, 20), Size(20, 10), Size(30, 1)} }

Sheets ==
    {Sheet(sz.w, sz.h, {}) : sz \in SheetSizes}
    \cup {LinedSheet} \cup FramedSheets \cup SmallSheets

CropToLabel ==
    /\ lastOp = "idle"
    /\ PDF_SUPPORT
    /\ \E s \in Sheets :
        Sends("_crop_to_label", Ret("Image", <<>>),
              [kind |-> "crop", sheet |-> s, found |-> _crop_to_label(s)])

CropWhitespace ==
    /\ lastOp = "idle"
    /\ PDF_SUPPORT
    /\ \E s \in Sheets :
        Sends("_crop_whitespace", Ret("Image", <<>>),
              [kind |-> "crop", sheet |-> s, found |-> _crop_whitespace(s)])

\* ------------------------------------------------- the image pipeline
\* print_pdf and the GUI preview over pages, crop regions, options and labels,
\* every write going through.
Pages == {Size(10, 20), Size(20, 10), Size(30, 1)}

\* What _crop_to_label hands back for a page, by what is drawn on it.
AutoCropResults(page) ==
    {_crop_to_label(s) : s \in {t \in Sheets : Size(t.w, t.h) = page}}

\* Regions inside the page, reaching over its edges, beyond it, empty and
\* inside out; a 10 pixel wide render is 5 pixels wide in the selection view.
ManualCoords ==
    {NoCoords}
    \cup {Coords(x[1], y[1], x[2], y[2]) :
            x \in {<<0, 3>>, <<-1, 4>>, <<4, 40>>, <<6, 40>>, <<4, 4>>, <<4, 3>>},
            y \in {<<0, 5>>, <<2, 40>>, <<2, 0>>}}

PipelineOpts(page, crops) ==
    UNION { {[auto_rotate |-> ar, auto_crop |-> ac, invert |-> inv, coords |-> c,
              flip_vertical |-> fl, found |-> found]
             : found \in IF ac /\ ~c.given THEN crops
                         ELSE {Cropped(NoBox, NoBox, "none")}}
            : ar \in BOOLEAN, ac \in BOOLEAN, inv \in BOOLEAN, fl \in BOOLEAN,
              c \in ManualCoords }

PipelineLabels ==
    PdfLabels \cup { [w |-> 0, h |-> 1, gap |-> 2], [w |-> 1, h |-> 0, gap |-> 2] }

PrinterDpis == {DefaultDpi, RenderDpi}

PrintPdfPage ==
    /\ lastOp = "idle"
    /\ \E page \in Pages :
       \E crops \in {AutoCropResults(page)} :
       \E lbl \in PipelineLabels, dpi \in PrinterDpis, opts \in PipelineOpts(page, crops) :
        Sends("print_pdf",
              print_pdf(connection, PDF_SUPPORT, TRUE, "ok", page, opts, lbl, dpi,
                        TRUE, AllOk),
              PdfJob(TRUE, "ok", page, opts, lbl, dpi, TRUE))

GuiShowProcessedPreview ==
    /\ lastOp = "idle"
    /\ PDF_SUPPORT
    /\ \E page \in Pages :
       \E crops \in {AutoCropResults(page)} :
       \E lbl \in PipelineLabels, opts \in PipelineOpts(page, crops) :
        LET p == _show_processed_preview(page, opts, lbl)
        IN  Sends("_show_processed_preview",
                  Ret(IF p.ok THEN "None" ELSE "Raised", <<>>),
                  [kind |-> "preview", page |-> page, opts |-> opts, lbl |-> lbl,
                   dpi |-> DefaultDpi, pipe |-> p])

NextPdf ==
    \/ Return
    \/ Connect
    \/ CropToLabel
    \/ CropWhitespace
    \/ PrintPdfPage
    \/ GuiShowProcessedPreview

SpecPdf == Init /\ [][NextPdf]_vars

\* ------------------------------------------------------ the GUI at work
\* The window's handlers run on Tk's main loop, one at a time; print workers
\* run on threads of their own, a step at a time, and reach the window only
\* through after().  A button that is disabled does not call its command.
GuiPoints == {Point(40, 10), Point(60, 20), Point(70, 40), Point(390, 590)}

GuiEvent(g) ==
    /\ lastOp = "idle"
    /\ PDF_SUPPORT
    /\ gui' = g
    /\ UNCHANGED <<PDF_SUPPORT, connection, openCount, lastOp, wasConnected, result,
                   log, job, fe>>

GuiSelectPdf ==
    \E render \in GuiRenderOutcome : GuiEvent(_select_pdf(gui, render))

GuiToggleManualCrop ==
    \E render \in GuiRenderOutcome :
        GuiEvent(_toggle_manual_crop([gui EXCEPT !.manual_crop = ~@], render))

GuiToggleAutoCrop ==
    \E render \in GuiRenderOutcome :
        GuiEvent(_update_preview([gui EXCEPT !.auto_crop = ~@], render))

GuiCropStart == \E pt \in GuiPoints : GuiEvent(_crop_start(gui, pt))

GuiCropEnd == \E pt \in GuiPoints : GuiEvent(_crop_end(gui, pt))

GuiApplyCrop ==
    /\ gui.apply_crop_btn = "normal"
    /\ \E render \in GuiRenderOutcome : GuiEvent(_apply_crop(gui, render))

GuiClearCrop ==
    /\ gui.clear_crop_btn = "normal"
    /\ \E render \in GuiRenderOutcome : GuiEvent(_clear_crop(gui, render))

GuiPrintLabel ==
    /\ gui.print_btn = "normal"
    /\ Len(gui.threads) < MaxWorkers
    /\ GuiEvent(_print_label(gui))

\* _do_print() up to the inner try: the printer is made and connected.
_do_print_connect(t, out, exc) ==
    IF exc = "pre_connect" THEN [t EXCEPT !.pc = "except"]
    ELSE LET c == connect("None", out)
         IN  IF c.ret # "True" THEN [t EXCEPT !.pc = "finally", !.conn = c.conn]
             ELSE IF exc = "post_connect" THEN [t EXCEPT !.pc = "except", !.conn = c.conn]
             ELSE [t EXCEPT !.pc = "print", !.conn = c.conn]

\* What the print call of a connected worker can return, by what is printed.
GuiPrintResults ==
    [mode \in GuiModes |-> {GuiPrint("Open", mode, plan).ret : plan \in FaultPlans(3)}]

\* The processed image of an applied manual crop, the PDF otherwise.
GuiMode(g) ==
    IF g.manual_crop /\ g.crop_applied /\ g.cropped_image THEN "cropped_image" ELSE "pdf"

\* The inner try and its finally: the print call, then printer.disconnect().
_do_print_print(t, exc, success) ==
    LET closed == disconnect(t.conn).conn
    IN  IF exc = "in_print" THEN [t EXCEPT !.pc = "except", !.conn = closed]
        ELSE [t EXCEPT !.pc = IF exc = "post_print" THEN "except" ELSE "finally",
                       !.conn = closed, !.success = success]

\* except Exception: the error is logged and shown.
_do_print_except(t) == [t EXCEPT !.pc = "finally"]

RemoveAt(s, i) == SubSeq(s, 1, i - 1) \o SubSeq(s, i + 1, Len(s))

\* The outer finally: after(0, self._reset_print_button), and the thread ends.
_do_print_finally_after_print_only(g, i) ==
    [g EXCEPT !.queue = IF g.threads[i].success # "None"
                        THEN Append(@, "_reset_print_button") ELSE @,
              !.threads = RemoveAt(@, i),
              !.leaked = @ \/ g.threads[i].conn = "Open"]

_do_print_finally(g, i) ==
    [g EXCEPT !.queue = Append(@, "_reset_print_button"),
              !.threads = RemoveAt(@, i),
              !.leaked = @ \/ g.threads[i].conn = "Open"]

GuiWorkerConnect ==
    \E i \in 1..Len(gui.threads) :
        /\ gui.threads[i].pc = "connect"
        /\ \E out \in OpenOutcome, exc \in {"none", "pre_connect", "post_connect"} :
            GuiEvent([gui EXCEPT !.threads[i] = _do_print_connect(@, out, exc)])

GuiWorkerPrint ==
    \E i \in 1..Len(gui.threads) :
        /\ gui.threads[i].pc = "print"
        /\ \E exc \in {"none", "in_print", "post_print"},
              success \in GuiPrintResults[GuiMode(gui)] :
            GuiEvent([gui EXCEPT !.threads[i] = _do_print_print(@, exc, success)])

GuiWorkerExcept ==
    \E i \in 1..Len(gui.threads) :
        /\ gui.threads[i].pc = "except"
        /\ GuiEvent([gui EXCEPT !.threads[i] = _do_print_except(@)])

GuiWorkerFinally ==
    \E i \in 1..Len(gui.threads) :
        /\ gui.threads[i].pc = "finally"
        /\ GuiEvent(_do_print_finally(gui, i))

\* Tk's main loop runs the oldest after() callback.
GuiMainLoop ==
    /\ gui.queue # <<>>
    /\ GuiEvent([_reset_print_button(gui) EXCEPT !.queue = Tail(@)])

NextGui ==
    \/ GuiSelectPdf
    \/ GuiToggleManualCrop
    \/ GuiToggleAutoCrop
    \/ GuiCropStart
    \/ GuiCropEnd
    \/ GuiApplyCrop
    \/ GuiClearCrop
    \/ GuiPrintLabel
    \/ GuiWorkerConnect
    \/ GuiWorkerPrint
    \/ GuiWorkerExcept
    \/ GuiWorkerFinally
    \/ GuiMainLoop

SpecGui == Init /\ [][NextGui]_vars

\* Threads get to run and the main loop gets to its queue: a worker step or a
\* queued callback that stays possible is taken.
SpecGuiFair ==
    /\ SpecGui
    /\ WF_vars(GuiWorkerConnect)
    /\ WF_vars(GuiWorkerPrint)
    /\ WF_vars(GuiWorkerExcept)
    /\ WF_vars(GuiWorkerFinally)
    /\ WF_vars(GuiMainLoop)

\* ---------------------------------------------------------------- claims
\* What the writes of a raster print look like on the wire.
IsHeaderWrite(w) ==
    /\ w.data.bin = <<>>
    /\ Len(w.data.text) > 9
    /\ w.data.text[1] = "SIZE "
    /\ w.data.text[Len(w.data.text) - 8] = "BITMAP "
    /\ w.data.text[Len(w.data.text)] = ",0,"

IsBitmapWrite(w) == w.data.text = <<>>

IsPrintWrite(w) == w.data.bin = <<>> /\ w.data.text = << "PRINT 1\n\n" >>

WriteFailed(w) == w.raised \/ w.n < ByteLen(w.data) \/ ~w.flushed

\* A call that got as far as print_image_tspl, directly or through print_pdf.
RasterPrint ==
    \/ lastOp = "print_image_tspl"
    \/ lastOp = "print_pdf" /\ job.reached

ThreeWritesInOrder ==
    /\ Len(log) = 3
    /\ IsHeaderWrite(log[1])
    /\ IsBitmapWrite(log[2])
    /\ IsPrintWrite(log[3])

\* C1, as stated: every raster print on a connected printer attempts exactly
\* the header write, the bitmap write and the PRINT write, in that order.
C1_RasterPrintThreeWrites ==
    RasterPrint /\ wasConnected => ThreeWritesInOrder

\* C1, amended: a raster print on a connected printer, with image support
\* available (PDF_SUPPORT), attempts exactly the header write, the bitmap write
\* and the PRINT write, in that order, whatever the outcome of each write.
C1_RasterPrintThreeWritesWhenSupported ==
    RasterPrint /\ wasConnected /\ PDF_SUPPORT => ThreeWritesInOrder

C1_Witness ==
    /\ lastOp = "print_pdf" /\ job.reached /\ wasConnected /\ PDF_SUPPORT
    /\ ThreeWritesInOrder
    /\ log[1].raised

\* C2: a raster print returns success only when every one of its writes
\* succeeded; a failed header, bitmap or PRINT write makes it return failure.
C2_RasterPrintFailsWhenAWriteFails ==
    RasterPrint /\ wasConnected /\ result = "True"
        => \A i \in 1..Len(log) : ~WriteFailed(log[i])

\* C3: within one print operation no write is attempted after a write that
\* failed.
PrintOps == {"print_image_tspl", "print_pdf", "print_label", "print_label_tspl",
             "print_simple"}

C3_NoWriteAfterFailedWrite ==
    lastOp \in PrintOps
        => \A i \in 1..Len(log) : WriteFailed(log[i]) => i = Len(log)

\* C4: a send or print method called on a disconnected printer returns failure
\* and attempts no write.
SendPrintOps == {"send_raw", "send_text", "print_label", "print_label_tspl",
                 "print_image_tspl", "print_pdf", "print_simple"}

C4_DisconnectedSendsFail ==
    lastOp \in SendPrintOps /\ ~wasConnected => result = "False" /\ log = <<>>

\* C5: connect() on a connected printer returns success and opens nothing; the
\* count of transport opens grows only by a connect() made while disconnected.
C5_OpensOnlyWhenDisconnected ==
    [][ /\ openCount' # openCount
            => /\ lastOp' \in {"connect", "with"}
               /\ ~is_connected(connection)
               /\ openCount' = openCount + 1
        /\ lastOp' = "connect" /\ is_connected(connection)
            => /\ result' = "True"
               /\ openCount' = openCount
               /\ connection' = connection ]_vars

C5_Witness ==
    lastOp = "connect" /\ wasConnected /\ result = "True" /\ openCount = 1

\* C6: a front-end request whose connect() succeeded ends with its connection
\* closed, whatever path it took.
C6_FrontEndClosesConnection ==
    fe.opened => ~is_connected(fe.conn)

\* C7: no send or print method changes the connection: it neither opens nor
\* closes the transport, whether it succeeds or fails.
C7_SendsKeepConnection ==
    [][ lastOp' \in SendPrintOps \cup {"send_file", "send_esc_pos_command",
                                        "initialize_printer"}
            => connection' = connection /\ openCount' = openCount ]_vars

C7_Witness ==
    /\ lastOp = "print_image_tspl" /\ wasConnected
    /\ \E i \in 1..Len(log) : log[i].raised
    /\ connection = "Open"

\* C8: disconnect() closes an open handle, does nothing otherwise, leaves the
\* printer not connected, and a second call changes nothing more.
C8_DisconnectSafe ==
    [][ lastOp' = "disconnect"
            => /\ ~is_connected(connection')
               /\ is_connected(connection) => job'.closed /\ connection' = "None"
               /\ ~is_connected(connection) => ~job'.closed /\ connection' = connection
               /\ disconnect(connection').conn = connection'
               /\ ~disconnect(connection').closed ]_vars

C8_Witness ==
    lastOp = "disconnect" /\ wasConnected /\ job.closed /\ connection = "None"

\* C9: send_raw on a connected printer returns success only when all the bytes
\* given were written and the transport was flushed.
C9_SendRawSuccessMeansAllWritten ==
    lastOp = "send_raw" /\ wasConnected /\ result = "True"
        => /\ Len(log) = 1
           /\ log[1].n = ByteLen(log[1].data)
           /\ log[1].flushed

\* C10: the BITMAP line carries ceil(w/8) bytes per row and the height h, ends
\* the header write with its trailing comma, and the write that follows is the
\* payload alone, ceil(w/8) * h bytes long.
CeilDiv8(w) == CHOOSE k \in 0..w : 8 * k >= w /\ 8 * (k - 1) < w

C10_BitmapLineMatchesPayload ==
    RasterPrint /\ Len(log) >= 2
        => LET t == log[1].data.text
               n == Len(t)
           IN  /\ IsHeaderWrite(log[1])
               /\ t[n - 3] = ToString(CeilDiv8(job.img.w))
               /\ t[n - 1] = ToString(job.img.h)
               /\ log[2].data.text = <<>>
               /\ Len(log[2].data.bin) = CeilDiv8(job.img.w) * job.img.h

C10_Witness ==
    /\ lastOp = "print_image_tspl" /\ Len(log) = 3
    /\ job.img.w = 9 /\ job.img.h = 2
    /\ Len(log[2].data.bin) = 4

\* The payload of a raster print that got to its bitmap write.
Payload == log[2].data.bin

EncodedImage == lastOp = "print_image_tspl" /\ Len(log) >= 2

\* Bit k (0 = least significant) of a byte.
BitOf(byte, k) == (byte \div (2 ^ k)) % 2

\* C11: rows are packed most significant bit first: for the pixel at column c
\* of row r of a w-wide image, bit 7 - (c mod 8) of payload byte
\* r * ceil(w/8) + floor(c/8) is 1 exactly when the pixel is an ink pixel.
C11_PixelToBitMsbFirst ==
    EncodedImage
        => \A c \in 0..(job.img.w - 1), r \in 0..(job.img.h - 1) :
               BitOf(Payload[r * CeilDiv8(job.img.w) + (c \div 8) + 1], 7 - (c % 8)) = 1
                   <=> <<c, r>> \in job.img.ink

C11_Witness ==
    /\ EncodedImage
    /\ job.img.w = 9 /\ job.img.h = 2
    /\ job.img.ink = {<<1, 0>>, <<8, 1>>}
    /\ Payload = <<64, 0, 0, 128>>

TrailingBits(w) == 8 * CeilDiv8(w) - w

\* C12: when the width is not a multiple of 8 the unused low-order bits of the
\* last byte of every row are 0, whatever the image holds; an all-background
\* image encodes to 0x00 bytes only, an all-ink image to 0xFF bytes except for
\* those trailing bits.
C12_TrailingBitsZero ==
    EncodedImage
        => LET w == job.img.w
               wb == CeilDiv8(w)
           IN  /\ \A r \in 0..(job.img.h - 1), k \in 0..(TrailingBits(w) - 1) :
                       BitOf(Payload[r * wb + wb], k) = 0
               /\ job.img.ink = {} => \A i \in 1..Len(Payload) : Payload[i] = 0
               /\ job.img.ink = (0..(w - 1)) \X (0..(job.img.h - 1))
                      => \A i \in 1..Len(Payload) :
                             Payload[i] = IF i % wb = 0
                                          THEN 255 - (2 ^ TrailingBits(w) - 1)
                                          ELSE 255

C12_Witness ==
    /\ EncodedImage
    /\ job.img.w = 9 /\ job.img.h = 2
    /\ job.img.ink = (0..8) \X (0..1)
    /\ Payload = <<255, 128, 255, 128>>

\* ------------------------------------------------------ text labels
\* The text of the one write of a text label.
LabelText == log[1].data.text

SentLabel == lastOp = "print_label_tspl" /\ Len(log) = 1

\* Where the k-th TEXT command starts; its y field; its quoted text argument.
TextStart(k) ==
    CHOOSE i \in 1..Len(LabelText) :
        /\ LabelText[i] = "TEXT "
        /\ Cardinality({j \in 1..i : LabelText[j] = "TEXT "}) = k

TextCount == Cardinality({i \in 1..Len(LabelText) : LabelText[i] = "TEXT "})

TextY(k) == LabelText[TextStart(k) + 3]

TextEnd(k) ==
    CHOOSE j \in (TextStart(k) + 7)..Len(LabelText) :
        /\ LabelText[j] = "\"\n"
        /\ \A m \in (TextStart(k) + 7)..(j - 1) : LabelText[m] # "\"\n"

TextArg(k) == SubSeq(LabelText, TextStart(k) + 7, TextEnd(k) - 1)

\* Reading a quoted argument back: backslash-quote stands for a quote.
RECURSIVE Unescaped(_)
Unescaped(arg) ==
    IF arg = <<>> THEN <<>>
    ELSE IF Len(arg) >= 2 /\ arg[1] = "\\" /\ arg[2] = "\""
    THEN <<"\"">> \o Unescaped(SubSeq(arg, 3, Len(arg)))
    ELSE <<Head(arg)>> \o Unescaped(Tail(arg))

\* The TEXT commands are those of `lines`, in order, 40 dots apart.
TextCommandsFor(lines) ==
    /\ TextCount = Len(lines)
    /\ \A k \in 1..Len(lines) :
           /\ TextY(k) = ToString(job.y + 40 * (k - 1))
           /\ Unescaped(TextArg(k)) = lines[k]

HasInk(line) == \E i \in 1..Len(line) : line[i] \notin {" ", "\t", "\r"}

C14_QuotesEscaped ==
    SentLabel
        => \A k \in 1..TextCount :
               /\ \A p \in (TextStart(k) + 7)..(TextEnd(k) - 1) :
                      LabelText[p] = "\""
                          => p > TextStart(k) + 7 /\ LabelText[p - 1] = "\\"
               /\ Unescaped(TextArg(k)) = SelectSeq(job.text, HasInk)[k]

C14_Witness ==
    /\ SentLabel
    /\ job.text = << <<"\"", "x", "\"">> >>
    /\ TextArg(1) = << "\\", "\"", "x", "\\", "\"" >>

IsTextBlock(m) ==
    /\ m # <<>> => m[1] = "TEXT " /\ m[Len(m)] = "\"\n"
    /\ \A j \in 1..Len(m) :
           /\ m[j] = "TEXT " /\ j > 1 => m[j - 1] = "\"\n"
           /\ m[j] = "\"\n" /\ j < Len(m) => m[j + 1] = "TEXT "
           /\ m[j] \notin {"\n", "\r\n", "PRINT 1\n", "CLS\n", "DIRECTION 1\n"}

\* C15: a text label goes out as exactly one transport write, holding in order
\* the SIZE line, the GAP line, DIRECTION 1, CLS, the TEXT lines, PRINT 1 and
\* one blank line, every line ended by LF and none by CRLF.
C15_OneWriteInOrder ==
    lastOp = "print_label_tspl"
        => /\ Len(log) <= 1
           /\ wasConnected /\ job.enc = "ok"
                => /\ Len(log) = 1
                   /\ log[1].data.bin = <<>>
                   /\ LET t == LabelText
                          n == Len(t)
                      IN  /\ n >= 12
                          /\ SubSeq(t, 1, 10)
                               = << "SIZE ", ToString(job.lbl.w), " mm, ",
                                    ToString(job.lbl.h), " mm\n",
                                    "GAP ", ToString(job.lbl.gap), " mm, 0 mm\n",
                                    "DIRECTION 1\n", "CLS\n" >>
                          /\ IsTextBlock(SubSeq(t, 11, n - 2))
                          /\ t[n - 1] = "PRINT 1\n"
                          /\ t[n] = "\n"
                          /\ \A i \in 1..(n - 1) : t[i] = "\r" => t[i + 1] # "\n"

C15_Witness ==
    /\ lastOp = "print_label_tspl" /\ wasConnected /\ job.enc = "ok"
    /\ Len(log) = 1
    /\ job.text = << <<"A", "\r">>, <<"B">> >>
    /\ TextCount = 2
    /\ log[1].raised

\* ----------------------------------------------------- image pipeline
\* A call that got as far as the image pipeline.
PdfRan ==
    lastOp = "print_pdf" /\ wasConnected /\ PDF_SUPPORT /\ job.rendered

PipelineRan == PdfRan \/ lastOp = "_show_processed_preview"

\* k is q / 25.4 to the nearest integer; k is q / 25.4 without its fraction.
IsNearest(k, q) == 254 * k - 10 * q <= 127 /\ 10 * q - 254 * k <= 127

IsTruncated(k, q) == 254 * k <= 10 * q /\ 10 * q < 254 * (k + 1)

\* C16, as stated: the target width and height in dots are mm * dpi / 25.4
\* rounded to the nearest integer.
C16_TargetDotsRounded ==
    PipelineRan
        => /\ IsNearest(job.pipe.target.w, job.lbl.w * job.dpi)
           /\ IsNearest(job.pipe.target.h, job.lbl.h * job.dpi)

\* C16, amended: the target width and height in dots are mm * dpi / 25.4 with
\* the fraction dropped (int()), and an image that reaches the encoder has
\* exactly that size.
C16_TargetDotsTruncated ==
    PipelineRan
        => /\ IsTruncated(job.pipe.target.w, job.lbl.w * job.dpi)
           /\ IsTruncated(job.pipe.target.h, job.lbl.h * job.dpi)
           /\ PdfRan /\ result = "True"
                => job.img.w = job.pipe.target.w /\ job.img.h = job.pipe.target.h

C16_Witness ==
    /\ PdfRan /\ result = "True"
    /\ job.lbl.w = 2 /\ job.dpi = 203
    /\ job.pipe.target.w = 15
    /\ ~IsNearest(15, 2 * 203)

NonPositive(lbl) == lbl.w <= 0 \/ lbl.h <= 0 \/ lbl.gap <= 0

\* C17: a print request, text or raster, whose label has a non-positive width,
\* height or gap is rejected: it returns failure and writes nothing.
C17_NonPositiveLabelRejected ==
    /\ lastOp \in {"print_label_tspl", "print_image_tspl", "print_pdf"}
    /\ wasConnected /\ PDF_SUPPORT
    /\ NonPositive(job.lbl)
    => result = "False" /\ log = <<>>

\* The manual region as it is cut at each stage: scaled and clamped to the
\* rendered page, and clamped to the label canvas.
PageBox == ClampedBox(job.opts.coords, 2, job.page)
CanvasBox == ClampedBox(job.opts.coords, 1, job.pipe.target)

EmptyAsGiven(c) == c.r <= c.l \/ c.b <= c.t

ManualCrops ==
    {i \in 1..Len(job.pipe.steps) :
        job.pipe.steps[i].op = "crop" /\ job.pipe.steps[i].by = "manual"}

AnyCrops == {i \in 1..Len(job.pipe.steps) : job.pipe.steps[i].op = "crop"}

\* C18, as stated: a raster print given a manual region of zero or negative
\* area, before or after clamping, reports failure and does not print.
C18_EmptyRegionRejected ==
    PdfRan /\ job.opts.coords.given
          /\ (EmptyAsGiven(job.opts.coords) \/ ~ValidBox(PageBox) \/ ~ValidBox(CanvasBox))
        => result = "False" /\ log = <<>>

SameCallUncropped ==
    print_pdf("Open", TRUE, TRUE, "ok", job.page,
              [job.opts EXCEPT !.coords = NoCoords, !.auto_crop = FALSE],
              job.lbl, job.dpi, TRUE, AllOk)

\* C18, amended: a manual region of zero or negative area is no failure: a
\* region empty as given is ignored, no crop at all is applied (the automatic
\* crop is not run either) and the call returns and writes what the same call
\* without a region and with the automatic crop off does; a region that is
\* empty only once clamped to a raster is not cut from that raster.
C18_EmptyRegionIgnored ==
    PdfRan /\ job.opts.coords.given
        => /\ EmptyAsGiven(job.opts.coords)
                => /\ AnyCrops = {}
                   /\ result = SameCallUncropped.ret
                   /\ log = SameCallUncropped.writes
           /\ ~ValidBox(PageBox)
                => \A i \in AnyCrops : job.pipe.steps[i].of # job.page
           /\ ~ValidBox(CanvasBox)
                => \A i \in AnyCrops : job.pipe.steps[i].factor # 1

C18_Witness ==
    /\ PdfRan
    /\ job.opts.coords = Coords(4, 2, 3, 0)
    /\ job.opts.auto_crop
    /\ job.pipe.steps # <<>> /\ AnyCrops = {}
    /\ result = "True" /\ Len(log) = 3

\* C19: every cut of the manual region uses the coordinates multiplied by the
\* ratio of the render to the 150 DPI selection view (300 / 150) and then
\* clamped to the raster it is cut from.
C19_CoordsScaledThenClamped ==
    PipelineRan
        => \A i \in ManualCrops :
               LET st == job.pipe.steps[i]
               IN  st.box = Box(Max2(0, Min2((job.opts.coords.l * 300) \div 150, st.of.w)),
                                Max2(0, Min2((job.opts.coords.t * 300) \div 150, st.of.h)),
                                Max2(0, Min2((job.opts.coords.r * 300) \div 150, st.of.w)),
                                Max2(0, Min2((job.opts.coords.b * 300) \div 150, st.of.h)))

StepRank(op) ==
    CASE op = "crop" -> 1 [] op = "rotate" -> 2 [] op = "flip" -> 3
      [] op = "scale" -> 4 [] op = "compose" -> 5 [] op = "binarize" -> 6
      [] op = "invert" -> 7

\* C20: the steps run in the order crop, rotate, flip, scale, compose,
\* binarize, invert, each at most once; no crop follows the scaling.
C20_StepsInOrderOnce ==
    PipelineRan
        => \A i \in 1..(Len(job.pipe.steps) - 1) :
               StepRank(job.pipe.steps[i].op) < StepRank(job.pipe.steps[i + 1].op)

\* C21: whatever the options (a manual region given or not, valid or not,
\* auto-crop, auto-rotate, flip, invert), the image print_pdf hands to the
\* bitmap encoder has exactly the target size: the BITMAP line carries
\* ceil(target width / 8) and the target height, and the payload has
\* ceil(target width / 8) * target height bytes.
C21_EncodedImageHasTargetSize ==
    PdfRan /\ job.pipe.ok
        => LET t == log[1].data.text
               n == Len(t)
               tw == CHOOSE k \in 0..(job.lbl.w * job.dpi) : IsTruncated(k, job.lbl.w * job.dpi)
               th == CHOOSE k \in 0..(job.lbl.h * job.dpi) : IsTruncated(k, job.lbl.h * job.dpi)
           IN  /\ Len(log) = 3
               /\ job.img.w = tw /\ job.img.h = th
               /\ t[n - 3] = ToString(CeilDiv8(tw))
               /\ t[n - 1] = ToString(th)
               /\ Len(log[2].data.bin) = CeilDiv8(tw) * th

C21_Witness ==
    /\ PdfRan /\ job.pipe.ok
    /\ job.opts.coords = Coords(0, 0, 3, 5)
    /\ job.opts.auto_rotate /\ job.opts.flip_vertical /\ job.opts.invert
    /\ job.lbl.w = 2 /\ job.dpi = 203
    /\ Cardinality(ManualCrops) = 2
    /\ Len(log[2].data.bin) = 14

\* The steps of one kind; the size of the image after the crop stage, read off
\* the crop applied to the page; the size of the image that was scaled.
StepsOf(op) == {i \in 1..Len(job.pipe.steps) : job.pipe.steps[i].op = op}

AfterCrop ==
    IF job.pipe.steps # <<>> /\ job.pipe.steps[1].op = "crop"
    THEN BoxSize(job.pipe.steps[1].box)
    ELSE job.page

BeforeScale ==
    IF job.pipe.ok
    THEN job.pipe.steps[CHOOSE i \in StepsOf("scale") :
                            \A j \in StepsOf("scale") : i <= j].of
    ELSE job.pipe.final

\* A run that came to the rotation: print_pdf divides by the target height
\* before it.
CameToRotation ==
    PipelineRan /\ (lastOp = "print_pdf" => job.pipe.target.h # 0)

\* C25: the image is rotated by 90 degrees, its width and height swapped,
\* exactly when auto-rotate is on and the image is wider than high while the
\* label is not, or the other way round; otherwise it is passed on unchanged.
C25_RotatesIffOrientationsDiffer ==
    CameToRotation
        => LET differ == (AfterCrop.w > AfterCrop.h)
                             # (job.pipe.target.w > job.pipe.target.h)
           IN  /\ Cardinality(StepsOf("rotate")) <= 1
               /\ StepsOf("rotate") # {} <=> job.opts.auto_rotate /\ differ
               /\ \A i \in StepsOf("rotate") : job.pipe.steps[i].of = AfterCrop
               /\ BeforeScale = IF job.opts.auto_rotate /\ differ
                                THEN Size(AfterCrop.h, AfterCrop.w)
                                ELSE AfterCrop

C25_Witness ==
    /\ PdfRan /\ job.pipe.ok
    /\ job.opts.auto_rotate
    /\ AfterCrop = Size(6, 10)
    /\ job.pipe.target = Size(15, 7)
    /\ StepsOf("rotate") # {}
    /\ BeforeScale = Size(10, 6)

\* C26: the scaled image fits the label: its width is at most the target
\* width, its height at most the target height, and the centering offsets
\* (target - scaled) // 2 are not negative.
C26_ScaledImageFits ==
    PipelineRan
        => \A i \in StepsOf("compose") :
               LET new == job.pipe.steps[i].of
                   x_offset == (job.pipe.target.w - new.w) \div 2
                   y_offset == (job.pipe.target.h - new.h) \div 2
               IN  /\ new.w >= 1 /\ new.w <= job.pipe.target.w
                   /\ new.h >= 1 /\ new.h <= job.pipe.target.h
                   /\ x_offset >= 0 /\ y_offset >= 0
                   /\ new.w * BeforeScale.h <= job.pipe.target.h * BeforeScale.w
                   /\ new.h * BeforeScale.w <= job.pipe.target.w * BeforeScale.h

C26_Witness ==
    /\ PdfRan /\ job.pipe.ok
    /\ BeforeScale = Size(10, 20)
    /\ job.pipe.target = Size(15, 7)
    /\ \E i \in StepsOf("compose") : job.pipe.steps[i].of = Size(3, 7)


\* The core operations of BluetoothPrinter.
CoreOps == {"connect", "send_raw", "send_text", "send_file", "print_simple",
            "print_label", "print_label_tspl", "print_image_tspl", "print_pdf"}

\* C24: every core operation reports every failure as its return value: none
\* of them ends with an exception leaving the call.
C24_NoExceptionEscapes ==
    lastOp \in CoreOps => result \in {"True", "False"}


\* Print operations in flight: the workers that have not finished, and one
\* more when a finished worker never closed its connection.
InFlight == Len(gui.threads) + (IF gui.leaked THEN 1 ELSE 0)

\* C23: from the start of a GUI print until its worker has finished and closed
\* its connection no second worker is started: at most one print operation is
\* in flight.
C23_OnePrintInFlight == InFlight <= 1

\* C29: in the GUI's manual-crop handling, crop_applied implies that
\* crop_coords is set and pending_crop is empty; and a crop becomes applied
\* only from a state with a pending selection, which it takes as crop_coords.
C29_AppliedCropConsistent ==
    /\ [](gui.crop_applied => gui.crop_coords.given /\ ~gui.pending_crop.given)
    /\ [][gui'.crop_applied /\ (~gui.crop_applied \/ gui'.crop_coords # gui.crop_coords)
            => gui.pending_crop.given /\ gui'.crop_coords = gui.pending_crop]_vars

C29_Witness ==
    /\ gui.crop_applied /\ gui.crop_coords = Coords(20, 40, 600, 1180)
    /\ gui.crop_start.set /\ gui.apply_crop_btn = "disabled"

Inside(box, size) ==
    /\ 0 <= box.l /\ box.l < box.r /\ box.r <= size.w
    /\ 0 <= box.t /\ box.t < box.b /\ box.b <= size.h

CropRan == lastOp \in {"_crop_to_label", "_crop_whitespace"}

\* C22: every crop region that is applied, be it a manual region, the label
\* region found by the border search or the whitespace crop, lies inside the
\* image it is applied to and is not empty.
C22_CropRegionsInsideImage ==
    /\ PipelineRan
           => \A i \in AnyCrops : Inside(job.pipe.steps[i].box, job.pipe.steps[i].of)
    /\ CropRan /\ job.found.by # "none"
           => Inside(job.found.box, Size(job.sheet.w, job.sheet.h))

C22_Witness ==
    /\ PdfRan /\ job.pipe.steps # <<>>
    /\ job.pipe.steps[1] = Step("crop", "auto", Size(30, 1), Box(18, 0, 30, 1), 1)
    /\ job.opts.found.by = "whitespace"

\* C27: on the page whose only dark content is the horizontal lines at
\* y = 50 and y = 950 and the vertical lines at x = 40 and x = 960,
\* _crop_to_label cuts the region whose four edges lie the border margin
\* inside those lines.
C27_RegionInsetFromLines ==
    lastOp = "_crop_to_label" /\ job.sheet = LinedSheet
        => /\ job.found.by = "label"
           /\ job.found.box = Box(40 + border_margin, 50 + border_margin,
                                  960 - border_margin, 950 - border_margin)

\* The label region found before it is judged is under the least size.
SmallRegion ==
    \/ job.found.cand.r - job.found.cand.l < MinRegion
    \/ job.found.cand.b - job.found.cand.t < MinRegion

\* The pixels of the sheet that are not background, and the box around them.
Content == {p \in job.sheet.ink : p.v <= WhiteThreshold}

ContentBox ==
    Box(MinOf({p.l : p \in Content}), MinOf({p.t : p \in Content}),
        MaxOf({p.r : p \in Content}), MaxOf({p.b : p \in Content}))

\* C28: when the label region found is smaller than 100 x 100 it is dropped
\* and the result is the whitespace crop of the same image: the box around
\* its non-background pixels with a margin of 10, kept inside the image; the
\* image as it is when it has no such pixel.
C28_SmallRegionFallsBack ==
    lastOp = "_crop_to_label" /\ SmallRegion
        => IF Content = {}
           THEN job.found.by = "none"
           ELSE /\ job.found.by = "whitespace"
                /\ job.found.box =
                       Box(Max2(0, ContentBox.l - WhitespaceMargin),
                           Max2(0, ContentBox.t - WhitespaceMargin),
                           Min2(job.sheet.w, ContentBox.r + WhitespaceMargin),
                           Min2(job.sheet.h, ContentBox.b + WhitespaceMargin))

C28_Witness ==
    /\ lastOp = "_crop_to_label" /\ SmallRegion
    /\ job.sheet.w = 130 /\ job.found.cand = Box(33, 5, 97, 127)
    /\ job.found.by = "whitespace" /\ job.found.box = Box(20, 0, 111, 79)

====
